---- MODULE Spec2Model ----
(***************************************************************************)
(* marbles (src/main.rs): a command line tool that keeps a named list of   *)
(* items in a line-delimited file.  Every invocation loads the file into a *)
(* BTreeSet<String>, runs one of add / remove / list / roll / edit and,    *)
(* except for edit, writes the set back through a BufWriter.               *)
(*                                                                         *)
(* A Rust String is modelled as the sequence of its bytes (integers), the  *)
(* list file as a byte sequence that may not exist, an invocation as a     *)
(* process record with a program counter.  File-system calls are taken to  *)
(* succeed (the `?` error exits of main are not modelled); a panic and a   *)
(* user interrupt are modelled.                                            *)
(***************************************************************************)
EXTENDS Integers, Sequences, FiniteSets, TLC

VARIABLES
    file,   \* the list file: [exists, data], data a byte sequence
    proc,   \* per invocation slot: the state of the running process
    inv     \* number of invocations started so far

vars == <<file, proc, inv>>

(***************************************************************************)
(* Bounds of the model.  The tick count of the roll animation, drawn by    *)
(* gen_range(300..500), is scaled down: a tick in which no gen_bool comes  *)
(* up true leaves choices as it is, so what choices can be after a few     *)
(* ticks is what it can be after 300 and more.  The BufWriter's capacity   *)
(* (8192 bytes in std) is scaled down to the size of the model's items.    *)
(***************************************************************************)
MaxFileLen     == 3   \* bytes of the file content at start
MaxEditLen     == 2   \* bytes of the content an editor leaves
MaxConcLen     == 1   \* bytes of the file content at start, SpecConc
MaxInvocations == 2   \* invocations started in one behaviour
MinCount       == 1   \* gen_range(300..500), scaled: lowest tick count
MaxCount       == 3   \* gen_range(300..500), scaled: exclusive upper end
BufCap         == 3   \* BufWriter capacity (std: 8192 bytes), scaled
MaxItems       == 3   \* items of a set saved by the round-trip specification

(***************************************************************************)
(* Bytes and strings.                                                      *)
(***************************************************************************)
LF == 10
CR == 13

Letters   == {97, 98}                         \* "a", "b"
FileBytes == Letters \cup {LF}

Procs == {"p1", "p2"}

\* CLI arguments <name>: "a", "b", "ab".  An item is a line of the list
\* file: the names hold no line terminator.
Names == {<<97>>, <<98>>, <<97, 98>>}

Cmds     == {"add", "remove", "list", "roll", "edit"}
ConcCmds == {"add", "remove", "list"}

RECURSIVE StringsUpTo(_, _)
StringsUpTo(A, n) ==
    IF n = 0 THEN {<<>>}
    ELSE LET S == StringsUpTo(A, n - 1)
         IN  S \cup {Append(s, c) : s \in S, c \in A}

\* File contents at start, and what an editor may leave on disk.
FileContents == StringsUpTo(FileBytes, MaxFileLen)
EditContents == StringsUpTo(FileBytes, MaxEditLen)

NoFile     == [exists |-> FALSE, data |-> <<>>]
FileOf(b)  == [exists |-> TRUE, data |-> b]

IsPrefix(s, t) == Len(s) <= Len(t) /\ SubSeq(t, 1, Len(s)) = s

\* Ord for String: byte-wise lexicographic order.
Less(s, t) ==
    \E k \in 1..(Len(s) + 1) :
        /\ k <= Len(t)
        /\ \A j \in 1..(k - 1) : s[j] = t[j]
        /\ (k = Len(s) + 1 \/ s[k] < t[k])

\* BTreeSet iteration order: ascending.
RECURSIVE SortedSeq(_)
SortedSeq(S) ==
    IF S = {} THEN <<>>
    ELSE LET m == CHOOSE x \in S : \A y \in S \ {x} : Less(x, y)
         IN  <<m>> \o SortedSeq(S \ {m})

Range(s) == {s[i] : i \in 1..Len(s)}

(***************************************************************************)
(* ItemList::new: File::open, BufReader::lines, flatten, collect.          *)
(***************************************************************************)
FirstLF(b) ==
    IF \E i \in 1..Len(b) : b[i] = LF
    THEN CHOOSE i \in 1..Len(b) : b[i] = LF /\ \A j \in 1..(i - 1) : b[j] # LF
    ELSE 0

\* Lines::next: a trailing "\n" is popped, and then a trailing "\r".
StripEol(l) ==
    IF l # <<>> /\ l[Len(l)] = LF
    THEN LET m == SubSeq(l, 1, Len(l) - 1)
         IN  IF m # <<>> /\ m[Len(m)] = CR THEN SubSeq(m, 1, Len(m) - 1) ELSE m
    ELSE l

RECURSIVE Lines(_)
Lines(b) ==
    IF b = <<>> THEN <<>>
    ELSE LET k    == FirstLF(b)
             raw  == IF k = 0 THEN b ELSE SubSeq(b, 1, k)
             rest == IF k = 0 THEN <<>> ELSE SubSeq(b, k + 1, Len(b))
         IN  <<StripEol(raw)>> \o Lines(rest)

\* The set ItemList::new collects: empty when the file cannot be opened.
LoadItems(f) == IF f.exists THEN Range(Lines(f.data)) ELSE {}

(***************************************************************************)
(* ItemList::add, ItemList::remove.                                        *)
(***************************************************************************)
\* Faulty variant: the insert is lost.
addDropsItem(items, item) == items

add(items, item) == items \cup {item}

\* Faulty variant: the item stays in the set.
removeKeepsItem(items, item) == [items |-> items, ret |-> item \in items]

\* BTreeSet::remove: the set without the item, and whether it was present.
remove(items, item) == [items |-> items \ {item}, ret |-> item \in items]

(***************************************************************************)
(* ItemList::save: the truncating open and the BufWriter.                  *)
(***************************************************************************)
\* Faulty variant: the open without truncate(true).
OpenKeepsContent(f) == FileOf(f.data)

\* OpenOptions write + truncate + create: the file exists and is empty.
OpenTruncate(f) == FileOf(<<>>)

\* A write of `bytes` through a file descriptor at offset pos: the bytes
\* replace what is there; a gap left by another process's truncation reads
\* as zero bytes.  Nothing is written for an empty piece.
WriteAt(data, pos, bytes) ==
    IF bytes = <<>> THEN data
    ELSE LET n == IF Len(data) > pos + Len(bytes) THEN Len(data)
                  ELSE pos + Len(bytes)
         IN  [i \in 1..n |->
                IF i > pos /\ i <= pos + Len(bytes) THEN bytes[i - pos]
                ELSE IF i <= Len(data) THEN data[i] ELSE 0]

\* Faulty variant: a piece that does not fit goes to the file ahead of the buffer.
BufWriteOvertakes(w, data) ==
    IF Len(data) < BufCap - Len(w.buf)
    THEN [disk |-> w.disk, buf |-> w.buf \o data]
    ELSE [disk |-> w.disk \o data, buf |-> w.buf]

\* BufWriter::write_all of one piece: w = [disk, buf], disk the bytes handed
\* to the file so far, buf the bytes held back.
BufWrite(w, data) ==
    LET spare == BufCap - Len(w.buf)
    IN  IF Len(data) < spare
        THEN [disk |-> w.disk, buf |-> w.buf \o data]
        ELSE LET w1 == IF Len(data) > spare
                       THEN [disk |-> w.disk \o w.buf, buf |-> <<>>]
                       ELSE w
             IN  IF Len(data) >= BufCap
                 THEN [disk |-> w1.disk \o data, buf |-> w1.buf]
                 ELSE [disk |-> w1.disk, buf |-> w1.buf \o data]

\* writeln!(writer, "{}", line): the line, then "\n".
Writeln(w, line) == BufWrite(BufWrite(w, line), <<LF>>)

\* Faulty variant: save without its trailing flush.
BufFlushNothing(w) == [disk |-> w.disk, buf |-> w.buf]

\* BufWriter::flush: what is buffered reaches the file.
BufFlush(w) == [disk |-> w.disk \o w.buf, buf |-> <<>>]

\* The order save iterates the set in.
SaveOrder(items) == SortedSeq(items)

\* The bytes a completed save leaves in the file.
RECURSIVE Serialize(_)
Serialize(ls) ==
    IF ls = <<>> THEN <<>> ELSE Head(ls) \o <<LF>> \o Serialize(Tail(ls))

(***************************************************************************)
(* Commands::List: the rows of the table.                                  *)
(***************************************************************************)
\* Faulty variant: the rows numbered from 0.
TableRowsFromZero(items) ==
    LET s == SortedSeq(items)
    IN  [i \in 1..Len(s) |-> [idx |-> i - 1, title |-> s[i]]]

TableRows(items) ==
    LET s == SortedSeq(items)
    IN  [i \in 1..Len(s) |-> [idx |-> (i - 1) + 1, title |-> s[i]]]

(***************************************************************************)
(* Commands::Roll: shuffle, and one tick of the animation loop.            *)
(***************************************************************************)
\* choices.shuffle: every order of the items.
Shuffles(items) ==
    {s \in [1..Cardinality(items) -> items] : Range(s) = items}

\* Vec::swap, Vec::remove with the code's 0-based indices.
Swap(c, i, j)  == [c EXCEPT ![i + 1] = c[j + 1], ![j + 1] = c[i + 1]]
RemoveAt(c, i) == SubSeq(c, 1, i) \o SubSeq(c, i + 2, Len(c))

\* for i in 0..(len - 1) { if gen_bool { swap(i, i + 1) } }, from index i on,
\* over every outcome of gen_bool.
RECURSIVE ForwardPass(_, _, _)
ForwardPass(S, i, n) ==
    IF i >= n - 1 THEN S
    ELSE ForwardPass(S \cup {Swap(c, i, i + 1) : c \in S}, i + 1, n)

\* for i in 1..len { if gen_bool { swap(i, i - 1) } }
RECURSIVE BackwardPass(_, _, _)
BackwardPass(S, i, n) ==
    IF i >= n THEN S
    ELSE BackwardPass(S \cup {Swap(c, i, i - 1) : c \in S}, i + 1, n)

\* for i in 0..len { if gen_bool && i < choices.len() { choices.remove(i) } }:
\* the range is fixed (n) when the loop starts.
RECURSIVE KillPass(_, _, _)
KillPass(S, i, n) ==
    IF i >= n THEN S
    ELSE KillPass(S \cup {RemoveAt(c, i) : c \in {d \in S : i < Len(d)}}, i + 1, n)

\* choices.len() - 1 on usize underflows when choices is empty: a panic in a
\* debug build; in a release build the range wraps to 0..usize::MAX and the
\* first swap(i, i + 1) indexes out of bounds, a panic as well.
TickPanics(c) == Len(c) = 0

TickResults(c) ==
    LET n == Len(c)
    IN  KillPass(BackwardPass(ForwardPass({c}, 0, n), 1, n), 0, n)

\* gen_range over the tick counts.
Counts == MinCount..(MaxCount - 1)

(***************************************************************************)
(* main: where control goes after the match arm of a command.              *)
(***************************************************************************)
\* Faulty variant: the edit arm falls through to list.save().
AfterCommandAlwaysSaves(cmd) == "save"

AfterCommand(cmd) == IF cmd = "edit" THEN "exit" ELSE "save"

Msg(kind, item) == [kind |-> kind, item |-> item, rows |-> <<>>]

\* History: whether the invocation before this one was an `add` that ran to
\* its end, and the name it added.
NoPrev == [add |-> FALSE, name |-> <<>>]

Fresh ==
    [pc      |-> "idle",   \* idle, load, cmd, roll, editing, edited, save, write,
                           \* exit, panicked, killed
     cmd     |-> "none",
     name    |-> <<>>,
     items   |-> {},       \* list.items
     file0   |-> NoFile,   \* history: the file when it was loaded
     choices |-> <<>>,
     left    |-> 0,        \* ticks of the animation loop still to run
     out     |-> <<>>,     \* what was printed
     buf     |-> <<>>,     \* the BufWriter's buffer
     pos     |-> 0,        \* offset of the file descriptor save writes to
     todo    |-> <<>>,     \* lines save has still to write
     opened  |-> FALSE,    \* history: save opened the file
     after   |-> {},       \* history: whose save had returned at that open
     saved   |-> FALSE,    \* history: save returned
     onDisk  |-> NoFile,   \* history: what the editor left
     prev    |-> NoPrev]   \* history: the previous invocation of this slot

\* A process that has ended keeps no memory: only the history fields stay.
Gone(r) ==
    IF r.pc \in {"exit", "panicked", "killed"}
    THEN [r EXCEPT !.choices = <<>>, !.left = 0, !.buf = <<>>, !.todo = <<>>,
                   !.pos = 0]
    ELSE r

Running(p) == proc[p].pc \notin {"idle", "exit", "panicked", "killed"}

Set(p, r) == proc' = [proc EXCEPT ![p] = r]

(***************************************************************************)
(* Actions.                                                                *)
(***************************************************************************)
\* A new invocation: Arguments::parse.
Start(p, cmd, name) ==
    /\ ~Running(p)
    /\ inv < MaxInvocations
    /\ inv' = inv + 1
    /\ Set(p, [Fresh EXCEPT !.pc = "load", !.cmd = cmd,
                 !.name = IF cmd \in {"add", "remove"} THEN name ELSE <<>>,
                 !.file0 = file, !.onDisk = file,
                 !.prev = IF proc[p].cmd = "add" /\ proc[p].pc = "exit"
                          THEN [add |-> TRUE, name |-> proc[p].name]
                          ELSE NoPrev])
    /\ UNCHANGED file

\* ItemList::new.
New(p) ==
    /\ proc[p].pc = "load"
    /\ Set(p, [proc[p] EXCEPT !.pc = "cmd", !.items = LoadItems(file),
                 !.file0 = file, !.onDisk = file])
    /\ UNCHANGED <<file, inv>>

Add(p) ==
    /\ proc[p].pc = "cmd" /\ proc[p].cmd = "add"
    /\ Set(p, [proc[p] EXCEPT !.pc = AfterCommand("add"),
                 !.out = Append(@, Msg("Added", proc[p].name)),
                 !.items = add(@, proc[p].name)])
    /\ UNCHANGED <<file, inv>>

Remove(p) ==
    /\ proc[p].pc = "cmd" /\ proc[p].cmd = "remove"
    /\ LET r == remove(proc[p].items, proc[p].name)
           o == Append(proc[p].out, Msg("Removing", proc[p].name))
       IN  Set(p, [proc[p] EXCEPT !.pc = AfterCommand("remove"),
                     !.items = r.items,
                     !.out = IF ~r.ret
                             THEN Append(o, Msg("error: was not in list", proc[p].name))
                             ELSE o])
    /\ UNCHANGED <<file, inv>>

List(p) ==
    /\ proc[p].pc = "cmd" /\ proc[p].cmd = "list"
    /\ Set(p, [proc[p] EXCEPT !.pc = AfterCommand("list"),
                 !.out = Append(@, [kind |-> "table", item |-> <<>>,
                                    rows |-> TableRows(proc[p].items)])])
    /\ UNCHANGED <<file, inv>>

\* Roll up to the loop: the header line, the shuffle, the tick count.
RollStart(p) ==
    /\ proc[p].pc = "cmd" /\ proc[p].cmd = "roll"
    /\ \E c \in Shuffles(proc[p].items), n \in Counts :
         Set(p, [proc[p] EXCEPT !.pc = "roll", !.choices = c, !.left = n,
                   !.out = Append(@, Msg("Rolling a marble", <<>>))])
    /\ UNCHANGED <<file, inv>>

\* One iteration of `for _ in 0..count` (the tables and the "dead:" lines
\* it prints are not kept).
RollTick(p) ==
    /\ proc[p].pc = "roll" /\ proc[p].left > 0
    /\ IF TickPanics(proc[p].choices)
       THEN Set(p, Gone([proc[p] EXCEPT !.pc = "panicked"]))
       ELSE \E c \in TickResults(proc[p].choices) :
              Set(p, [proc[p] EXCEPT !.choices = c, !.left = @ - 1])
    /\ UNCHANGED <<file, inv>>

\* let choice = choices[0]; println!("  rolled: ...").
RollDraw(p) ==
    /\ proc[p].pc = "roll" /\ proc[p].left = 0
    /\ IF Len(proc[p].choices) = 0
       THEN Set(p, Gone([proc[p] EXCEPT !.pc = "panicked"]))
       ELSE Set(p, [proc[p] EXCEPT !.pc = AfterCommand("roll"),
                      !.out = Append(@, Msg("rolled", proc[p].choices[1]))])
    /\ UNCHANGED <<file, inv>>

\* Command::new(EDITOR).arg(path).spawn() succeeds.
EditSpawn(p) ==
    /\ proc[p].pc = "cmd" /\ proc[p].cmd = "edit"
    /\ Set(p, [proc[p] EXCEPT !.pc = "editing"])
    /\ UNCHANGED <<file, inv>>

\* spawn() fails: the let-else returns Ok(()) (the format! prints nothing).
EditSpawnFails(p) ==
    /\ proc[p].pc = "cmd" /\ proc[p].cmd = "edit"
    /\ Set(p, Gone([proc[p] EXCEPT !.pc = AfterCommand("edit")]))
    /\ UNCHANGED <<file, inv>>

\* The editor, a child process, writes the file; one write stands for all
\* the writes of its session: b is the content it leaves.
EditorWrites(p, b) ==
    /\ proc[p].pc = "editing"
    /\ file' = FileOf(b)
    /\ Set(p, [proc[p] EXCEPT !.pc = "edited", !.onDisk = FileOf(b)])
    /\ UNCHANGED inv

\* child.wait() returns (the editor may have written nothing).
EditWait(p) ==
    /\ proc[p].pc \in {"editing", "edited"}
    /\ Set(p, Gone([proc[p] EXCEPT !.pc = AfterCommand("edit")]))
    /\ UNCHANGED <<file, inv>>

\* save: the open.
SaveOpen(p) ==
    /\ proc[p].pc = "save"
    /\ file' = OpenTruncate(file)
    /\ Set(p, [proc[p] EXCEPT !.pc = "write", !.opened = TRUE, !.buf = <<>>,
                 !.pos = 0, !.after = {q \in Procs \ {p} : proc[q].saved},
                 !.todo = SaveOrder(proc[p].items)])
    /\ UNCHANGED inv

\* save: one writeln!.
SaveWriteLine(p) ==
    /\ proc[p].pc = "write" /\ proc[p].todo # <<>>
    /\ LET w == Writeln([disk |-> <<>>, buf |-> proc[p].buf],
                        Head(proc[p].todo))
       IN  /\ file' = FileOf(WriteAt(file.data, proc[p].pos, w.disk))
           /\ Set(p, [proc[p] EXCEPT !.buf = w.buf, !.todo = Tail(@),
                        !.pos = @ + Len(w.disk)])
    /\ UNCHANGED inv

\* save: writer.flush(), and main returns Ok(()).
SaveFlush(p) ==
    /\ proc[p].pc = "write" /\ proc[p].todo = <<>>
    /\ LET w == BufFlush([disk |-> <<>>, buf |-> proc[p].buf])
       IN  /\ file' = FileOf(WriteAt(file.data, proc[p].pos, w.disk))
           /\ Set(p, Gone([proc[p] EXCEPT !.pc = "exit", !.buf = w.buf,
                             !.saved = TRUE]))
    /\ UNCHANGED inv

\* A user interrupt: the process dies where it is; nothing is flushed.
Interrupt(p) ==
    /\ Running(p)
    /\ Set(p, Gone([proc[p] EXCEPT !.pc = "killed"]))
    /\ UNCHANGED <<file, inv>>

Step(p) ==
    \/ New(p)
    \/ Add(p)
    \/ Remove(p)
    \/ List(p)
    \/ RollStart(p)
    \/ RollTick(p)
    \/ RollDraw(p)
    \/ EditSpawn(p)
    \/ EditSpawnFails(p)
    \/ \E b \in EditContents : EditorWrites(p, b)
    \/ EditWait(p)
    \/ SaveOpen(p)
    \/ SaveWriteLine(p)
    \/ SaveFlush(p)

(***************************************************************************)
(* Spec: invocations one after another, each of which may be interrupted.  *)
(***************************************************************************)
Init ==
    /\ file \in {NoFile} \cup {FileOf(b) : b \in FileContents}
    /\ proc = [p \in Procs |-> Fresh]
    /\ inv = 0

Next ==
    \/ \E c \in Cmds, n \in Names : Start("p1", c, n)
    \/ Step("p1")
    \/ Interrupt("p1")

Spec == Init /\ [][Next]_vars

(***************************************************************************)
(* SpecConc: two invocations on the same list name at the same time.       *)
(***************************************************************************)
InitConc ==
    /\ file \in {NoFile} \cup {FileOf(b) : b \in StringsUpTo(FileBytes, MaxConcLen)}
    /\ proc = [p \in Procs |-> Fresh]
    /\ inv = 0

\* Each of the two processes is one invocation.
NextConc ==
    \E p \in Procs :
        \/ \E c \in ConcCmds, n \in Names : proc[p].pc = "idle" /\ Start(p, c, n)
        \/ New(p)
        \/ Add(p)
        \/ Remove(p)
        \/ List(p)
        \/ SaveOpen(p)
        \/ SaveWriteLine(p)
        \/ SaveFlush(p)

SpecConc == InitConc /\ [][NextConc]_vars

(***************************************************************************)
(* SpecRT: save of any set of strings, then a load by a new invocation.    *)
(***************************************************************************)
\* Strings with and without line terminators inside and at their end.
RTStrings ==
    {<<>>, <<97>>, <<98>>, <<97, 98>>, <<98, 97>>, <<LF>>, <<97, LF>>,
     <<97, LF, 98>>, <<CR>>, <<97, CR>>, <<97, CR, 98>>}

RTSets == {S \in SUBSET RTStrings : Cardinality(S) <= MaxItems}

InitRT ==
    /\ file \in {NoFile} \cup {FileOf(b) : b \in StringsUpTo(FileBytes, MaxConcLen)}
    /\ \E S \in RTSets :
         proc = [p \in Procs |->
                   IF p = "p1"
                   THEN [Fresh EXCEPT !.pc = "save", !.items = S,
                                      !.file0 = file, !.onDisk = file]
                   ELSE Fresh]
    /\ inv = 1

NextRT ==
    \/ SaveOpen("p1")
    \/ SaveWriteLine("p1")
    \/ SaveFlush("p1")
    \/ proc["p1"].pc = "exit" /\ proc["p2"].pc = "idle" /\ Start("p2", "list", <<>>)
    \/ New("p2")

SpecRT == InitRT /\ [][NextRT]_vars

(***************************************************************************)
(* Properties.                                                             *)
(***************************************************************************)
P1 == proc["p1"]

\* The persisted set: what a load of the file as it is now collects.
Persisted == LoadItems(file)

\* The set the invocation loaded.
Loaded(r) == LoadItems(r.file0)

Kinds(r) == {r.out[i].kind : i \in 1..Len(r.out)}

\* The items printed as rolled.
Rolled(r) == {r.out[i].item : i \in {j \in 1..Len(r.out) : r.out[j].kind = "rolled"}}

StrictlySorted(ls) == \A i \in 1..(Len(ls) - 1) : Less(ls[i], ls[i + 1])

Occurrences(ls, x) == Cardinality({i \in 1..Len(ls) : ls[i] = x})

\* C1: a roll on a list of N >= 1 items that runs to its end leaves N - 1
\* items persisted, a subset of the set before, without the item it printed
\* as rolled.
C1_RollRemovesOne ==
    (P1.cmd = "roll" /\ P1.pc = "exit" /\ Loaded(P1) # {}) =>
        /\ Cardinality(Persisted) = Cardinality(Loaded(P1)) - 1
        /\ Persisted \subseteq Loaded(P1)
        /\ Rolled(P1) \cap Persisted = {}

\* C2: a roll on an empty list reports the "no items" condition, removes
\* nothing, saves nothing and ends normally (exit code 0): it never panics.
C2_RollEmptyEndsNormally ==
    (P1.cmd = "roll" /\ P1.pc \in {"roll", "save", "write", "exit", "panicked"}
       /\ Loaded(P1) = {}) =>
        /\ P1.pc # "panicked"
        /\ ~P1.opened
        /\ file = P1.file0
        /\ (P1.pc = "exit" => "no items" \in Kinds(P1))

\* C3: remove x ends normally; the error message is printed iff x was not in
\* the loaded set S (remove returned false), and the persisted set is then
\* S \ {x}, which is S itself when x was absent.
C3_Remove ==
    (P1.cmd = "remove") =>
        /\ P1.pc # "panicked"
        /\ (P1.pc = "exit" =>
              /\ Persisted = Loaded(P1) \ {P1.name}
              /\ ("error: was not in list" \in Kinds(P1)) <=> (P1.name \notin Loaded(P1))
              /\ (P1.name \notin Loaded(P1) => Persisted = Loaded(P1)))

C3_Witness ==
    /\ P1.cmd = "remove" /\ P1.pc = "exit"
    /\ P1.name \notin Loaded(P1)
    /\ Cardinality(Loaded(P1)) >= 2
    /\ "error: was not in list" \in Kinds(P1)

\* C4: add x reports success and leaves S union {x} persisted, with x on
\* exactly one line of the file; an add x that follows an add x leaves the
\* persisted set as it found it.
C4_AddIdempotent ==
    (P1.cmd = "add") =>
        /\ P1.pc # "panicked"
        /\ (P1.pc = "exit" =>
              /\ Persisted = Loaded(P1) \cup {P1.name}
              /\ Occurrences(Lines(file.data), P1.name) = 1
              /\ P1.out = <<Msg("Added", P1.name)>>
              /\ (P1.prev.add /\ P1.prev.name = P1.name =>
                    /\ Persisted = Loaded(P1)
                    /\ file = P1.file0))

C4_Witness ==
    /\ P1.cmd = "add" /\ P1.pc = "exit"
    /\ P1.prev.add /\ P1.prev.name = P1.name
    /\ Cardinality(Persisted) >= 2

\* C5: when every saved item is a non-empty single-line string, the file a
\* completed save leaves has the items as its lines, in ascending order
\* without duplicates, and the next load collects exactly the saved set.
SingleLine(x) == x # <<>> /\ LF \notin Range(x) /\ CR \notin Range(x)

C5_RoundTrip ==
    (proc["p1"].saved /\ \A x \in proc["p1"].items : SingleLine(x)) =>
        /\ file.exists
        /\ file.data = Serialize(Lines(file.data))
        /\ StrictlySorted(Lines(file.data))
        /\ Range(Lines(file.data)) = proc["p1"].items
        /\ Len(Lines(file.data)) = Cardinality(proc["p1"].items)
        /\ (proc["p2"].pc = "cmd" => proc["p2"].items = proc["p1"].items)

C5_Witness ==
    /\ proc["p1"].saved /\ proc["p2"].pc = "cmd"
    /\ \A x \in proc["p1"].items : SingleLine(x)
    /\ Cardinality(proc["p1"].items) = MaxItems
    /\ proc["p2"].items = proc["p1"].items
    /\ proc["p1"].file0.data # <<>>

\* C6: edit never saves: the invocation never opens the file for writing,
\* and when it has ended the file is what the editor left (the file as it
\* was when the editor wrote nothing or did not start).
C6_EditNeverSaves ==
    (P1.cmd = "edit") =>
        /\ ~P1.opened /\ ~P1.saved
        /\ P1.pc \notin {"save", "write", "panicked"}
        /\ (P1.pc = "exit" => file = P1.onDisk)

C6_Witness ==
    /\ P1.cmd = "edit" /\ P1.pc = "exit"
    /\ file # P1.file0
    /\ Persisted # P1.items
    /\ P1.items # {}

\* C7: no lock orders two invocations: when q's save opens the file after
\* p's `add x` has saved, and q had loaded before x was there, the file q
\* leaves holds q's set only and x is lost.
C7_LastSaveWins ==
    \A p \in Procs, q \in Procs :
        (/\ p # q
         /\ proc[p].pc = "exit" /\ proc[q].pc = "exit"
         /\ proc[p].cmd = "add"
         /\ p \in proc[q].after
         /\ proc[p].name \notin Loaded(proc[q])
         /\ ~(proc[q].cmd = "add" /\ proc[q].name = proc[p].name)) =>
            /\ Persisted = proc[q].items
            /\ proc[p].name \notin Persisted

C7_Witness ==
    \E p \in Procs, q \in Procs :
        /\ p # q
        /\ proc[p].pc = "exit" /\ proc[q].pc = "exit"
        /\ proc[p].cmd = "add" /\ proc[q].cmd = "add"
        /\ proc[p].name # proc[q].name
        /\ proc[p].file0 = proc[q].file0
        /\ p \in proc[q].after
        /\ proc[p].name \notin Persisted
        /\ proc[q].name \in Persisted

\* C8, as claimed: after an interrupt of an invocation that saves, the file
\* holds the complete set of the previous invocation or the complete set of
\* this one.
C8_InterruptKeepsCompleteSet ==
    (P1.pc = "killed" /\ P1.cmd # "edit") =>
        \/ Persisted = Loaded(P1)
        \/ Persisted = P1.items

\* C8, amended: an interrupt before save's open leaves the file as it was;
\* an interrupt after it leaves a prefix, which may be empty, of the bytes
\* save writes for this invocation's set.
C8_InterruptLeavesPrefix ==
    (P1.pc = "killed" /\ P1.cmd # "edit") =>
        IF P1.opened
        THEN file.exists /\ IsPrefix(file.data, Serialize(SortedSeq(P1.items)))
        ELSE file = P1.file0

C8_Witness ==
    /\ P1.pc = "killed" /\ P1.opened
    /\ file.data # <<>>
    /\ file.data # Serialize(SortedSeq(P1.items))
    /\ Persisted # Loaded(P1)
    /\ Persisted # P1.items

\* C9: list prints one row per item, the titles in ascending order, the
\* indices 1..N, and the save after it leaves the loaded set persisted.
C9_List ==
    (P1.cmd = "list") =>
        /\ P1.pc # "panicked"
        /\ (P1.pc = "exit" =>
              /\ Len(P1.out) = 1 /\ P1.out[1].kind = "table"
              /\ LET rows == P1.out[1].rows
                 IN  /\ Len(rows) = Cardinality(Loaded(P1))
                     /\ {rows[i].title : i \in 1..Len(rows)} = Loaded(P1)
                     /\ \A i \in 1..Len(rows) : rows[i].idx = i
                     /\ \A i \in 1..(Len(rows) - 1) :
                            Less(rows[i].title, rows[i + 1].title)
              /\ Persisted = Loaded(P1))

C9_Witness ==
    /\ P1.cmd = "list" /\ P1.pc = "exit"
    /\ Cardinality(Loaded(P1)) >= 2
    /\ ~StrictlySorted(Lines(P1.file0.data))
    /\ file # P1.file0

\* C10: in a roll on a list with at least one item, choices is at every
\* tick and at the final draw a non-empty duplicate-free sequence of items
\* of the list, and the roll does not panic.
C10_ChoicesNeverEmpty ==
    (P1.cmd = "roll" /\ Loaded(P1) # {}) =>
        /\ P1.pc # "panicked"
        /\ (P1.pc = "roll" =>
              /\ P1.choices # <<>>
              /\ Cardinality(Range(P1.choices)) = Len(P1.choices)
              /\ Range(P1.choices) \subseteq P1.items)

====
